---- MODULE Spec2Model ----
(***************************************************************************)
(* A model of the Befunge-93 interpreter of src/src/lib.rs: the program    *)
(* grid, the program counter, the heading, the string mode, the stack, the *)
(* input and output streams and the running flag, with one action per      *)
(* public operation (load_program, step, run).                             *)
(*                                                                         *)
(* Characters are their Unicode code points.  The stack is a sequence      *)
(* whose last element is the top.  isize is modelled as a two's-complement *)
(* word of WordBits bits.  A Rust panic (index out of bounds, arithmetic   *)
(* overflow) ends the process: ctl = "aborted".                            *)
(***************************************************************************)
EXTENDS Integers, Sequences, FiniteSets, TLC

VARIABLES stack, program, pc, direction, width, height, mode, input, output,
          running, ctl, result, last

vars == <<stack, program, pc, direction, width, height, mode, input, output,
          running, ctl, result, last>>

engine == <<stack, program, pc, direction, width, height, mode, input, output,
            running>>

(***************************************************************************)
(* Bounds of the model.                                                    *)
(***************************************************************************)
\* width of the modelled isize word, in bits
WordBits == 10
\* longest stack explored
MaxStack == 3
\* longest output explored
MaxOut == 4
\* operand values drawn for the single-instruction specification
OpVal == 2

IntMax == 2 ^ (WordBits - 1) - 1

IntMin == -(2 ^ (WordBits - 1))

(***************************************************************************)
(* Characters.                                                             *)
(***************************************************************************)
Ch == [plus |-> 43, minus |-> 45, star |-> 42, slash |-> 47, percent |-> 37,
       bang |-> 33, backtick |-> 96, gt |-> 62, lt |-> 60, caret |-> 94,
       v |-> 118, question |-> 63, underscore |-> 95, bar |-> 124,
       quote |-> 34, colon |-> 58, backslash |-> 92, dollar |-> 36,
       dot |-> 46, comma |-> 44, hash |-> 35, p |-> 112, g |-> 103,
       amp |-> 38, tilde |-> 126, space |-> 32, at |-> 64,
       newline |-> 10, zero |-> 48, nine |-> 57, x |-> 120,
       amacron |-> 256]

DIRECTIONS == {"Left", "Right", "Up", "Down"}

Abs(n) == IF n < 0 THEN -n ELSE n

Sign(n) == IF n < 0 THEN -1 ELSE IF n > 0 THEN 1 ELSE 0

\* the last element removed
Front(s) == SubSeq(s, 1, Len(s) - 1)

InWord(n) == IntMin <= n /\ n <= IntMax

\* two's-complement wrap-around of a release build
Wrap(n) == ((n - IntMin) % (2 ^ WordBits)) + IntMin

(***************************************************************************)
(* Results of a call.                                                      *)
(***************************************************************************)
Res(kind, a, b) == [kind |-> kind, a |-> a, b |-> b]

Ok == Res("Ok", 0, 0)

NoResult == Res("None", 0, 0)

Panic == Res("Panic", 0, 0)

IoError == Res("IoError", 0, 0)

ParseError == Res("ParseError", 0, 0)

\* an error carrying the low byte of the character: the variant C21 is tested
\* against
UnknownInstruction_as_byte(c) == Res("UnknownInstruction", c % 256, 0)

UnknownInstruction(c) == Res("UnknownInstruction", c, 0)

InvalidAscii(n) == Res("InvalidAscii", n, 0)

InvalidCoordinates(x, y) == Res("InvalidCoordinates", x, y)

ErrorKinds == {"IoError", "UnknownInstruction", "InvalidAscii",
               "InvalidCoordinates", "ParseError"}

IsErr(r) == r.kind \in ErrorKinds

(***************************************************************************)
(* Stack.                                                                  *)
(***************************************************************************)
\* Stack::new(0) in Interpreter::new
StackDefault == 0

\* pop with a default of 1: the variant C9 is tested against
pop_default_one(s) == IF Len(s) = 0 THEN [v |-> 1, s |-> s]
                      ELSE [v |-> s[Len(s)], s |-> Front(s)]

\* the value popped and the stack left
pop(s) == IF Len(s) = 0 THEN [v |-> StackDefault, s |-> s]
          ELSE [v |-> s[Len(s)], s |-> Front(s)]

\* a is popped first, b second
pop2(s) == LET p1 == pop(s)
               p2 == pop(p1.s)
           IN  [a |-> p1.v, b |-> p2.v, s |-> p2.s]

push(s, value) == Append(s, value)

(***************************************************************************)
(* Program text: str::lines, str::len and the grid built by load_program.   *)
(***************************************************************************)
RECURSIVE SplitNewline(_)
\* the segments between the newlines of a text (one more than the newlines)
SplitNewline(text) ==
  IF text = <<>> THEN << <<>> >>
  ELSE LET rest == SplitNewline(Front(text))
           c == text[Len(text)]
       IN  IF c = Ch.newline THEN Append(rest, <<>>)
           ELSE [rest EXCEPT ![Len(rest)] = Append(@, c)]

\* str::lines: a final empty segment is not a line
Lines(text) == LET parts == SplitNewline(text)
               IN  IF parts[Len(parts)] = <<>> THEN Front(parts) ELSE parts

\* bytes of the UTF-8 encoding of one character
Utf8Len(c) == IF c < 128 THEN 1 ELSE IF c < 2048 THEN 2
              ELSE IF c < 65536 THEN 3 ELSE 4

RECURSIVE ByteLen(_)
\* str::len of a line: its length in bytes
ByteLen(line) == IF line = <<>> THEN 0
                 ELSE ByteLen(Front(line)) + Utf8Len(line[Len(line)])

RECURSIVE MaxByteLen(_)
\* program.lines().map(|line| line.len()).max().unwrap_or(0)
MaxByteLen(lines) ==
  IF lines = <<>> THEN 0
  ELSE LET m == MaxByteLen(Front(lines))
           n == ByteLen(lines[Len(lines)])
       IN  IF n > m THEN n ELSE m

\* vec![vec![' '; longest_line_len]; rows_len] with the characters copied in
BuildGrid(lines, longest_line_len) ==
  [i \in 1..Len(lines) |->
     [j \in 1..longest_line_len |->
        IF j <= Len(lines[i]) THEN lines[i][j] ELSE Ch.space]]

(***************************************************************************)
(* Grid access and cursor movement.  pc = <<row, column>>, from 0.         *)
(***************************************************************************)
\* self.program[i][j] does not panic
InGrid(prog, at) == /\ at[1] < Len(prog)
                    /\ at[2] < Len(prog[at[1] + 1])

get_instruction(prog, at) == prog[at[1] + 1][at[2] + 1]

\* a cursor that stops at the edges: the variant C15 is tested against
move_pc_clamped(at, dir, w, h) ==
  LET i == at[1]
      j == at[2]
  IN  CASE dir = "Left"  -> <<i, IF j = 0 THEN 0 ELSE j - 1>>
        [] dir = "Right" -> <<i, IF j = w - 1 THEN j ELSE j + 1>>
        [] dir = "Up"    -> <<IF i = 0 THEN 0 ELSE i - 1, j>>
        [] dir = "Down"  -> <<IF i = h - 1 THEN i ELSE i + 1, j>>

move_pc(at, dir, w, h) ==
  LET i == at[1]
      j == at[2]
  IN  CASE dir = "Left"  -> <<i, IF j = 0 THEN w - 1 ELSE j - 1>>
        [] dir = "Right" -> <<i, (j + 1) % w>>
        [] dir = "Up"    -> <<IF i = 0 THEN h - 1 ELSE i - 1, j>>
        [] dir = "Down"  -> <<(i + 1) % h, j>>

(***************************************************************************)
(* Number formatting and parsing.                                          *)
(***************************************************************************)
RECURSIVE Digits(_)
\* the decimal digits of a natural number, as character codes
Digits(n) == IF n < 10 THEN <<Ch.zero + n>>
             ELSE Append(Digits(n \div 10), Ch.zero + (n % 10))

\* isize::to_string
to_string(n) == IF n < 0 THEN <<Ch.minus>> \o Digits(-n) ELSE Digits(n)

IsWhitespace(c) == c \in {9, 10, 11, 12, 13, 32}

RECURSIVE TrimStart(_)
TrimStart(s) == IF s # <<>> /\ IsWhitespace(s[1]) THEN TrimStart(Tail(s))
                ELSE s

RECURSIVE TrimEnd(_)
TrimEnd(s) == IF s # <<>> /\ IsWhitespace(s[Len(s)]) THEN TrimEnd(Front(s))
              ELSE s

\* str::trim
trim(s) == TrimEnd(TrimStart(s))

IsDigit(c) == Ch.zero <= c /\ c <= Ch.nine

RECURSIVE DigitsValue(_)
DigitsValue(s) == IF s = <<>> THEN 0
                  ELSE 10 * DigitsValue(Front(s)) + (s[Len(s)] - Ch.zero)

\* str::parse::<isize>: an optional sign, then one or more digits, in range
parse(s) ==
  LET signed == s # <<>> /\ s[1] \in {Ch.plus, Ch.minus}
      body == IF signed THEN Tail(s) ELSE s
      value == IF signed /\ s[1] = Ch.minus THEN -DigitsValue(body)
               ELSE DigitsValue(body)
      wellFormed == /\ body # <<>>
                    /\ \A k \in 1..Len(body) : IsDigit(body[k])
  IN  IF wellFormed /\ InWord(value) THEN [ok |-> TRUE, v |-> value]
      ELSE [ok |-> FALSE, v |-> 0]

\* BufRead::read_line: the bytes up to and including the first newline
read_line(inp) ==
  LET ends == {k \in 1..Len(inp) : inp[k] = Ch.newline}
      n == IF ends = {} THEN Len(inp)
           ELSE CHOOSE k \in ends : \A l \in ends : k <= l
  IN  [line |-> SubSeq(inp, 1, n), rest |-> SubSeq(inp, n + 1, Len(inp))]

(***************************************************************************)
(* The instructions.  Each takes the machine m (a record of the fields an  *)
(* instruction reads or writes, with m.res = Ok) and gives the set of      *)
(* machines it may leave; m.res is the value it returns.                   *)
(***************************************************************************)
\* debug builds panic on overflow, release builds wrap around
Checked(m, s, n) ==
  IF InWord(n) THEN {[m EXCEPT !.stack = push(s, n)]}
  ELSE {[m EXCEPT !.stack = s, !.res = Panic],
        [m EXCEPT !.stack = push(s, Wrap(n))]}

\* b / a of Rust: the quotient rounded towards zero
Quotient(b, a) == Sign(b) * Sign(a) * (Abs(b) \div Abs(a))

\* b % a of Rust: the remainder has the sign of b
Remainder(b, a) == Sign(b) * (Abs(b) % Abs(a))

push_digit_to_stack(m) ==
  {[m EXCEPT !.stack = push(m.stack, get_instruction(m.program, m.pc) - Ch.zero)]}

add(m) == LET o == pop2(m.stack) IN Checked(m, o.s, o.a + o.b)

\* subtract with its operands exchanged: the variant C8 is tested against
subtract_swapped(m) == LET o == pop2(m.stack) IN Checked(m, o.s, o.a - o.b)

subtract(m) == LET o == pop2(m.stack) IN Checked(m, o.s, o.b - o.a)

multiply(m) == LET o == pop2(m.stack) IN Checked(m, o.s, o.a * o.b)

divide(m) ==
  LET o == pop2(m.stack)
  IN  IF o.a = 0 THEN {[m EXCEPT !.stack = push(o.s, 0)]}
      ELSE IF o.b = IntMin /\ o.a = -1
           THEN {[m EXCEPT !.stack = o.s, !.res = Panic]}
           ELSE {[m EXCEPT !.stack = push(o.s, Quotient(o.b, o.a))]}

remainder(m) ==
  LET o == pop2(m.stack)
  IN  IF o.a = 0 THEN {[m EXCEPT !.stack = push(o.s, 0)]}
      ELSE IF o.b = IntMin /\ o.a = -1
           THEN {[m EXCEPT !.stack = o.s, !.res = Panic]}
           ELSE {[m EXCEPT !.stack = push(o.s, Remainder(o.b, o.a))]}

logical_not(m) ==
  LET o == pop(m.stack)
  IN  {[m EXCEPT !.stack = push(o.s, IF o.v = 0 THEN 1 ELSE 0)]}

greater_than(m) ==
  LET o == pop2(m.stack)
  IN  {[m EXCEPT !.stack = push(o.s, IF o.b > o.a THEN 1 ELSE 0)]}

start_moving_right(m) == {[m EXCEPT !.direction = "Right"]}

start_moving_left(m) == {[m EXCEPT !.direction = "Left"]}

start_moving_up(m) == {[m EXCEPT !.direction = "Up"]}

start_moving_down(m) == {[m EXCEPT !.direction = "Down"]}

start_moving_randomly(m) == {[m EXCEPT !.direction = d] : d \in DIRECTIONS}

horizontal_if(m) ==
  LET o == pop(m.stack)
  IN  {[m EXCEPT !.stack = o.s,
                 !.direction = IF o.v = 0 THEN "Right" ELSE "Left"]}

vertical_if(m) ==
  LET o == pop(m.stack)
  IN  {[m EXCEPT !.stack = o.s,
                 !.direction = IF o.v = 0 THEN "Down" ELSE "Up"]}

\* a quote that always enters string mode: the variant C14 is tested against
enter_string_mode(m) == {[m EXCEPT !.mode = "String"]}

toggle_string_mode(m) ==
  {[m EXCEPT !.mode = IF m.mode = "Normal" THEN "String" ELSE "Normal"]}

duplicate_top_of_the_stack(m) ==
  LET o == pop(m.stack)
  IN  {[m EXCEPT !.stack = push(push(o.s, o.v), o.v)]}

swap_top_stack_values(m) ==
  LET o == pop2(m.stack)
  IN  {[m EXCEPT !.stack = push(push(o.s, o.a), o.b)]}

pop_and_discard(m) == {[m EXCEPT !.stack = pop(m.stack).s]}

\* an integer output followed by a space: the variant C18 is tested against
pop_and_output_int_spaced(m) ==
  LET o == pop(m.stack)
  IN  {[m EXCEPT !.stack = o.s,
                 !.output = m.output \o to_string(o.v) \o <<Ch.space>>]}

pop_and_output_int(m) ==
  LET o == pop(m.stack)
  IN  {[m EXCEPT !.stack = o.s, !.output = m.output \o to_string(o.v)]}

\* the byte popped, or InvalidAscii with the value popped
pop_ascii(s) ==
  LET o == pop(s)
  IN  IF 0 <= o.v /\ o.v <= 255 THEN [res |-> Ok, v |-> o.v, s |-> o.s]
      ELSE [res |-> InvalidAscii(o.v), v |-> 0, s |-> o.s]

pop_and_output_char(m) ==
  LET c == pop_ascii(m.stack)
  IN  IF c.res # Ok THEN {[m EXCEPT !.stack = c.s, !.res = c.res]}
      ELSE {[m EXCEPT !.stack = c.s, !.output = Append(m.output, c.v)]}

\* a byte that occurs in no UTF-8 text
NeverUtf8(b) == b \in {192, 193} \cup (245..255)

\* read_line gives a String: a line holding such a byte is an io::Error
\* (the bytes are consumed).  The streams of Inputs hold ASCII and such bytes
\* only, so this decides whether the line is text.
IsText(line) == \A k \in 1..Len(line) : ~NeverUtf8(line[k])

\* an integer input that parses the line as read: the variant C22 is tested
\* against
get_int_and_push_untrimmed(m) ==
  LET r == read_line(m.input)
      n == parse(r.line)
  IN  IF ~IsText(r.line) THEN {[m EXCEPT !.input = r.rest, !.res = IoError]}
      ELSE IF ~n.ok THEN {[m EXCEPT !.input = r.rest, !.res = ParseError]}
      ELSE {[m EXCEPT !.input = r.rest, !.stack = push(m.stack, n.v)]}

get_int_and_push(m) ==
  LET r == read_line(m.input)
      n == parse(trim(r.line))
  IN  IF ~IsText(r.line) THEN {[m EXCEPT !.input = r.rest, !.res = IoError]}
      ELSE IF ~n.ok THEN {[m EXCEPT !.input = r.rest, !.res = ParseError]}
      ELSE {[m EXCEPT !.input = r.rest, !.stack = push(m.stack, n.v)]}

get_char_and_push(m) ==
  IF m.input = <<>> THEN {[m EXCEPT !.res = IoError]}
  ELSE {[m EXCEPT !.input = Tail(m.input),
                  !.stack = push(m.stack, Head(m.input))]}

\* a bridge that skips nothing: the variant C20 is tested against
bridge_without_skip(m) == {m}

bridge(m) ==
  {[m EXCEPT !.pc = move_pc(m.pc, m.direction, m.width, m.height)]}

\* put validating the value before the sign of the coordinates: the variant
\* C11 is tested against
put_value_first(m) ==
  LET py == pop(m.stack)
      px == pop(py.s)
      y == py.v
      x == px.v
      c == pop_ascii(px.s)
  IN  IF c.res # Ok THEN {[m EXCEPT !.stack = c.s, !.res = c.res]}
      ELSE IF y < 0 \/ x < 0 \/ ~(y < Len(m.program))
              \/ ~(x < Len(m.program[y + 1]))
      THEN {[m EXCEPT !.stack = c.s, !.res = InvalidCoordinates(x, y)]}
      ELSE {[m EXCEPT !.stack = c.s, !.program[y + 1][x + 1] = c.v]}

put(m) ==
  LET py == pop(m.stack)
      px == pop(py.s)
      y == py.v
      x == px.v
      c == pop_ascii(px.s)
  IN  IF y < 0 \/ x < 0
      THEN {[m EXCEPT !.stack = px.s, !.res = InvalidCoordinates(x, y)]}
      ELSE IF c.res # Ok THEN {[m EXCEPT !.stack = c.s, !.res = c.res]}
      ELSE IF ~(y < Len(m.program)) \/ ~(x < Len(m.program[y + 1]))
      THEN {[m EXCEPT !.stack = c.s, !.res = InvalidCoordinates(x, y)]}
      ELSE {[m EXCEPT !.stack = c.s, !.program[y + 1][x + 1] = c.v]}

\* get taking the first value popped for the column: the variant C12 is
\* tested against
get_column_first(m) ==
  LET px == pop(m.stack)
      py == pop(px.s)
      y == py.v
      x == px.v
  IN  IF y < 0 \/ ~(y < Len(m.program))
         \/ x < 0 \/ ~(x < Len(m.program[y + 1]))
      THEN {[m EXCEPT !.stack = py.s, !.res = InvalidCoordinates(x, y)]}
      ELSE {[m EXCEPT !.stack = push(py.s, m.program[y + 1][x + 1])]}

get(m) ==
  LET py == pop(m.stack)
      px == pop(py.s)
      y == py.v
      x == px.v
  IN  IF y < 0 \/ ~(y < Len(m.program))
         \/ x < 0 \/ ~(x < Len(m.program[y + 1]))
      THEN {[m EXCEPT !.stack = px.s, !.res = InvalidCoordinates(x, y)]}
      ELSE {[m EXCEPT !.stack = push(px.s, m.program[y + 1][x + 1])]}

\* a halt that leaves running set: the variant C4 is tested against
halt_keeps_running(m) == {m}

\* '@' => self.running = false
halt(m) == {[m EXCEPT !.running = FALSE]}

\* the match of step
dispatch(m, instruction) ==
  CASE instruction = Ch.plus       -> add(m)
    [] instruction = Ch.minus      -> subtract(m)
    [] instruction = Ch.star       -> multiply(m)
    [] instruction = Ch.slash      -> divide(m)
    [] instruction = Ch.percent    -> remainder(m)
    [] instruction = Ch.bang       -> logical_not(m)
    [] instruction = Ch.backtick   -> greater_than(m)
    [] instruction = Ch.gt         -> start_moving_right(m)
    [] instruction = Ch.lt         -> start_moving_left(m)
    [] instruction = Ch.caret      -> start_moving_up(m)
    [] instruction = Ch.v          -> start_moving_down(m)
    [] instruction = Ch.question   -> start_moving_randomly(m)
    [] instruction = Ch.underscore -> horizontal_if(m)
    [] instruction = Ch.bar        -> vertical_if(m)
    [] instruction = Ch.quote      -> toggle_string_mode(m)
    [] instruction = Ch.colon      -> duplicate_top_of_the_stack(m)
    [] instruction = Ch.backslash  -> swap_top_stack_values(m)
    [] instruction = Ch.dollar     -> pop_and_discard(m)
    [] instruction = Ch.dot        -> pop_and_output_int(m)
    [] instruction = Ch.comma      -> pop_and_output_char(m)
    [] instruction = Ch.hash       -> bridge(m)
    [] instruction = Ch.p          -> put(m)
    [] instruction = Ch.g          -> get(m)
    [] instruction = Ch.amp        -> get_int_and_push(m)
    [] instruction = Ch.tilde      -> get_char_and_push(m)
    [] instruction = Ch.space      -> {m}
    [] instruction = Ch.at         -> halt(m)
    [] OTHER -> IF IsDigit(instruction) THEN push_digit_to_stack(m)
                ELSE {[m EXCEPT !.res = UnknownInstruction(instruction)]}

\* a machine whose running flag step does not set: the variant C24 is tested
\* against
Machine_keeping_flag ==
  [stack |-> stack, program |-> program, pc |-> pc,
   direction |-> direction, width |-> width, height |-> height,
   mode |-> mode, input |-> input, output |-> output,
   running |-> running, res |-> Ok]

\* the machine an instruction works on
Machine == [stack |-> stack, program |-> program, pc |-> pc,
            direction |-> direction, width |-> width, height |-> height,
            mode |-> mode, input |-> input, output |-> output,
            running |-> TRUE, res |-> Ok]

\* a step that advances the cursor after a failure too: the variant C23 is
\* tested against
step_advancing_on_error(m) ==
  IF ~InGrid(m.program, m.pc) THEN {[m EXCEPT !.res = Panic]}
  ELSE LET instruction == get_instruction(m.program, m.pc)
           after == IF m.mode = "String"
                    THEN IF instruction = Ch.quote THEN toggle_string_mode(m)
                         ELSE {[m EXCEPT !.stack = push(m.stack, instruction % 256)]}
                    ELSE dispatch(m, instruction)
       IN  {[o EXCEPT !.pc = move_pc(o.pc, o.direction, o.width, o.height)] :
              o \in after}

\* step on a program with rows: the machines one call of step may leave
step(m) ==
  IF ~InGrid(m.program, m.pc) THEN {[m EXCEPT !.res = Panic]}
  ELSE LET instruction == get_instruction(m.program, m.pc)
           after == IF m.mode = "String"
                    THEN IF instruction = Ch.quote THEN toggle_string_mode(m)
                         ELSE {[m EXCEPT !.stack = push(m.stack, instruction % 256)]}
                    ELSE dispatch(m, instruction)
       IN  {IF o.res = Ok
            THEN [o EXCEPT !.pc = move_pc(o.pc, o.direction, o.width, o.height)]
            ELSE o : o \in after}

(***************************************************************************)
(* Texts, inputs and operand values the model draws from.                  *)
(***************************************************************************)
\* "><@": never reaches the halt
TextLoop == <<Ch.gt, Ch.lt, Ch.at>>

\* <@" : turns left and enters string mode
TextString == <<Ch.lt, Ch.at, Ch.quote>>

\* "v" over "@": two rows of one column
TextDown == <<Ch.v, Ch.newline, Ch.at>>

\* "x": an unknown instruction
TextUnknown == <<Ch.x>>

\* a text of one newline: one row of no cells
TextNewline == <<Ch.newline>>

\* a line of one character that takes two bytes in UTF-8
TextNonAscii == <<Ch.amacron>>

Texts == {<<>>, TextNewline, TextLoop, TextString, TextDown,
          TextUnknown, TextNonAscii}

\* the input streams: empty, "2\n-1", "x\n1", and the byte 255 on a line of
\* its own followed by " 7 "
Inputs == {<<>>,
           <<Ch.zero + 2, Ch.newline, Ch.minus, Ch.zero + 1>>,
           <<Ch.x, Ch.newline, Ch.zero + 1>>,
           <<255, Ch.newline, Ch.space, Ch.zero + 7, Ch.space>>}

\* the characters step distinguishes: every instruction, the first digit, the
\* last and one between, an unknown one and one whose code is not a byte
Instructions == {Ch.plus, Ch.minus, Ch.star, Ch.slash, Ch.percent, Ch.bang,
                 Ch.backtick, Ch.gt, Ch.lt, Ch.caret, Ch.v, Ch.question,
                 Ch.underscore, Ch.bar, Ch.quote, Ch.colon, Ch.backslash,
                 Ch.dollar, Ch.dot, Ch.comma, Ch.hash, Ch.p, Ch.g, Ch.amp,
                 Ch.tilde, Ch.space, Ch.at, Ch.zero, Ch.zero + 1, Ch.nine,
                 Ch.x, Ch.amacron}

\* two rows of three cells (of four bytes when c takes two) with the
\* instruction c at the origin and spaces elsewhere
OpText(c) == <<c, Ch.space, Ch.space, Ch.newline, Ch.space>>

\* put pops three operands, the most of any instruction
MaxOperands == 3

\* small values, the first value that is not a byte, and the ends of the word
OpVals == (-OpVal..OpVal) \cup {256, IntMin, IntMax}

OpStacks == UNION {[1..n -> OpVals] : n \in 0..MaxOperands}

Bounded(m) == Len(m.stack) <= MaxStack /\ Len(m.output) <= MaxOut

(***************************************************************************)
(* The operations.  last names the call that led to the state: the         *)
(* operation, the character its step fetched (NoInstr when it fetched      *)
(* none), the text it loaded and the length of the stack it found.         *)
(***************************************************************************)
NoInstr == -1

Called(op, instr, text) ==
  [op |-> op, instr |-> instr, text |-> text, depth |-> Len(stack)]

\* Interpreter::new
Init ==
  /\ stack = <<>>
  /\ program = <<>>
  /\ pc = <<0, 0>>
  /\ direction = "Right"
  /\ width = 0
  /\ height = 0
  /\ mode = "Normal"
  /\ input \in Inputs
  /\ output = <<>>
  /\ running = FALSE
  /\ ctl = "idle"
  /\ result = NoResult
  /\ last = [op |-> "new", instr |-> NoInstr, text |-> <<>>, depth |-> 0]

\* a load that empties the stack: the variant C16 is tested against
LoadEffect_clearing(text) ==
  LET lines == Lines(text)
      longest_line_len == MaxByteLen(lines)
      rows_len == Len(lines)
  IN  /\ program' = BuildGrid(lines, longest_line_len)
      /\ width' = longest_line_len
      /\ height' = rows_len
      /\ stack' = <<>>
      /\ UNCHANGED <<pc, direction, mode, input, output, running>>

\* what load_program assigns
LoadEffect(text) ==
  LET lines == Lines(text)
      longest_line_len == MaxByteLen(lines)
      rows_len == Len(lines)
  IN  /\ program' = BuildGrid(lines, longest_line_len)
      /\ width' = longest_line_len
      /\ height' = rows_len
      /\ UNCHANGED <<stack, pc, direction, mode, input, output, running>>

\* load_program(text)
Load(text) ==
  /\ ctl = "idle"
  /\ LoadEffect(text)
  /\ result' = Ok
  /\ last' = Called("load", NoInstr, text)
  /\ UNCHANGED ctl

\* the fields of the machine o written back
Store(o) ==
  /\ stack' = o.stack
  /\ program' = o.program
  /\ pc' = o.pc
  /\ direction' = o.direction
  /\ mode' = o.mode
  /\ input' = o.input
  /\ output' = o.output
  /\ running' = o.running
  /\ UNCHANGED <<width, height>>

\* the character step is about to fetch
Fetched == IF InGrid(program, pc) THEN get_instruction(program, pc) ELSE NoInstr

\* step()
Step ==
  /\ ctl = "idle"
  /\ last' = Called("step", IF program = <<>> THEN NoInstr ELSE Fetched, <<>>)
  /\ IF program = <<>>
     THEN /\ result' = Ok
          /\ UNCHANGED <<engine, ctl>>
     ELSE \E o \in step(Machine) :
            /\ Bounded(o)
            /\ Store(o)
            /\ result' = o.res
            /\ ctl' = IF o.res = Panic THEN "aborted" ELSE "idle"

\* run(): the call, up to the first test of the loop
RunCall ==
  /\ ctl = "idle"
  /\ last' = Called("run", NoInstr, <<>>)
  /\ IF program = <<>>
     THEN /\ result' = Ok
          /\ UNCHANGED <<engine, ctl>>
     ELSE /\ running' = TRUE
          /\ ctl' = "run"
          /\ result' = NoResult
          /\ UNCHANGED <<stack, program, pc, direction, width, height, mode,
                         input, output>>

\* a loop that ends on an error only: the variant C17 is tested against
RunIter_past_halt ==
  /\ ctl = "run"
  /\ last' = Called("run", Fetched, <<>>)
  /\ \E o \in step(Machine) :
       /\ Bounded(o)
       /\ Store(o)
       /\ ctl' = IF o.res = Panic THEN "aborted"
                 ELSE IF o.res # Ok THEN "idle" ELSE "run"
       /\ result' = IF o.res = Ok THEN NoResult ELSE o.res

\* run(): one turn of the loop, a step and the test that follows it
RunIter ==
  /\ ctl = "run"
  /\ last' = Called("run", Fetched, <<>>)
  /\ \E o \in step(Machine) :
       /\ Bounded(o)
       /\ Store(o)
       /\ ctl' = IF o.res = Panic THEN "aborted"
                 ELSE IF o.res # Ok \/ ~o.running THEN "idle" ELSE "run"
       /\ result' = IF o.res = Ok /\ o.running THEN NoResult ELSE o.res

(***************************************************************************)
(* Specifications.                                                         *)
(***************************************************************************)
Next ==
  \/ \E text \in Texts : Load(text)
  \/ Step
  \/ RunCall
  \/ RunIter

\* any sequence of load, step and run calls on a new interpreter
Spec == Init /\ [][Next]_vars

\* the scheduling of run: its loop keeps turning
LiveSpec == Spec /\ WF_vars(RunIter)

\* an interpreter that has loaded one instruction, with any operands, any
\* heading and either mode (load_program keeps all three)
InitOps ==
  /\ stack \in OpStacks
  /\ \E c \in Instructions :
       /\ program = BuildGrid(Lines(OpText(c)), MaxByteLen(Lines(OpText(c))))
       /\ last = [op |-> "load", instr |-> NoInstr, text |-> OpText(c),
                  depth |-> Len(stack)]
       /\ input \in IF c \in {Ch.amp, Ch.tilde} THEN Inputs ELSE {<<>>}
  /\ pc = <<0, 0>>
  /\ direction \in DIRECTIONS
  /\ width = Len(program[1])
  /\ height = Len(program)
  /\ mode \in {"Normal", "String"}
  /\ output = <<>>
  /\ running = FALSE
  /\ ctl = "idle"
  /\ result = Ok

NextOps == Step

\* steps of each instruction on every small stack
SpecOps == InitOps /\ [][NextOps]_vars

\* "pg " over "   ": a put followed by a get
TextPutGet == <<Ch.p, Ch.g, Ch.space, Ch.newline, Ch.space, Ch.space, Ch.space>>

\* values a cell can be given: the ends of the byte range, a space, a digit,
\* the halt and 'g' itself
CellVals == {0, Ch.space, Ch.zero + 1, Ch.at, Ch.g, 255}

\* "pg" loaded and the stack holding v, x, y for the put, x, y for the get
\* and a further copy of v underneath, for every cell (x, y) of the grid
InitPutGet ==
  /\ program = BuildGrid(Lines(TextPutGet), MaxByteLen(Lines(TextPutGet)))
  /\ width = MaxByteLen(Lines(TextPutGet))
  /\ height = Len(Lines(TextPutGet))
  /\ \E v \in CellVals, x \in 0..(width - 1), y \in 0..(height - 1) :
       stack = <<v, x, y, v, x, y>>
  /\ last = [op |-> "load", instr |-> NoInstr, text |-> TextPutGet,
             depth |-> Len(stack)]
  /\ pc = <<0, 0>>
  /\ direction = "Right"
  /\ mode = "Normal"
  /\ input = <<>>
  /\ output = <<>>
  /\ running = FALSE
  /\ ctl = "idle"
  /\ result = Ok

NextPutGet == Step

\* steps of the put and the get that follows it
SpecPutGet == InitPutGet /\ [][NextPutGet]_vars

\* "&.": an integer read and written
TextIntEcho == <<Ch.amp, Ch.dot>>

\* "~,": a character read and written
TextCharEcho == <<Ch.tilde, Ch.comma>>

IOTexts == {<<>>, TextIntEcho, TextCharEcho}

NextIO ==
  \/ \E text \in IOTexts : Load(text)
  \/ Step

\* loads and steps of the programs that read and write
SpecIO == Init /\ [][NextIO]_vars

(***************************************************************************)
(* Properties.                                                             *)
(***************************************************************************)
\* a grid with at least one cell
HasCells(prog) == \E i \in 1..Len(prog) : Len(prog[i]) > 0

\* the grid holds the character c
Contains(prog, c) ==
  \E i \in 1..Len(prog) : \E j \in 1..Len(prog[i]) : prog[i][j] = c

\* a step or a turn of run's loop has just acted
Stepped == last.op \in {"step", "run"} /\ last.instr # NoInstr

\* C1: whenever a program with cells is loaded, the cursor's row is less
\* than the height and its column less than the width.
C1_CursorInGrid ==
  HasCells(program) => (pc[1] < height /\ pc[2] < width)

\* C2: loading a non-empty text resets the cursor to (0,0), the heading to
\* Right and the mode to Normal.
C2_LoadResets ==
  (last.op = "load" /\ last.text # <<>>)
    => (pc = <<0, 0>> /\ direction = "Right" /\ mode = "Normal")

\* C3: a step that executes '@' in Normal mode clears running and leaves the
\* cursor on the '@' cell; stack, grid, heading and mode are unchanged.
C3_HaltKeepsCursor ==
  [][(Stepped' /\ last'.instr = Ch.at /\ mode = "Normal")
       => (/\ ~running'
           /\ pc' = pc
           /\ UNCHANGED <<stack, program, direction, mode>>)]_vars

\* C4 as stated: a run started in the state load is to leave (cursor at the
\* origin, heading Right, mode Normal) on a program that contains '@'
\* comes to an end, unless the bounds of the model stop it.
C4_RunTerminates ==
  (/\ ctl = "run" /\ last.op = "run" /\ last.instr = NoInstr
   /\ pc = <<0, 0>> /\ direction = "Right" /\ mode = "Normal"
   /\ Contains(program, Ch.at))
    ~> (ctl # "run" \/ ~ENABLED RunIter)

\* C4 as amended: the turn of run's loop that executes '@' in Normal mode is
\* the last one: run returns success with running false.
C4_HaltEndsRun ==
  [][(last'.op = "run" /\ last'.instr = Ch.at /\ mode = "Normal")
       => (ctl' = "idle" /\ result' = Ok /\ ~running')]_vars

\* a run has returned because its step executed '@'
C4_Witness ==
  /\ last.op = "run" /\ last.instr = Ch.at
  /\ ctl = "idle" /\ result = Ok /\ ~running /\ mode = "Normal"

\* C5: step and run on a grid without cells return success, change neither
\* stack, cursor, heading, mode nor output, and do not abort.
C5_EmptyGridNoOp ==
  [][(last'.op \in {"step", "run"} /\ ~HasCells(program))
       => (/\ ctl' # "aborted"
           /\ ctl' = "idle" => result' = Ok
           /\ UNCHANGED <<stack, pc, direction, mode, output>>)]_vars

\* C6: load of the empty text leaves grid, width, height, cursor, heading
\* and mode as they were.
C6_EmptyLoadNoOp ==
  [][(last'.op = "load" /\ last'.text = <<>>)
       => UNCHANGED <<program, width, height, pc, direction, mode>>]_vars

\* C7: after a step or a run has returned an error the engine is stopped:
\* the call is over and running is false.
C7_ErrorStopsEngine ==
  (last.op \in {"step", "run"} /\ IsErr(result))
    => (ctl = "idle" /\ ~running)

\* the operands on top of the stack before a step: a the top, b the next
TopA == stack[Len(stack)]

TopB == stack[Len(stack) - 1]

BelowTwo == SubSeq(stack, 1, Len(stack) - 2)

\* the value a step left on top of the stack
NewTop == stack'[Len(stack')]

\* C8: with a the top and b the value under it, '-' leaves b-a, '/' the
\* quotient of b by a rounded towards zero, '%' the remainder of that
\* division, '`' 1 if b>a and 0 otherwise; '/' and '%' leave 0 when a is 0.
\* Each succeeds and replaces the two operands by the one result (operands
\* whose difference or quotient leaves the word are excluded).
C8_OperandOrder ==
  [][(/\ last'.op = "step" /\ mode = "Normal" /\ Len(stack) >= 2
      /\ last'.instr \in {Ch.minus, Ch.slash, Ch.percent, Ch.backtick}
      /\ InWord(TopB - TopA)
      /\ ~(TopB = IntMin /\ TopA = -1))
       => (/\ result' = Ok
           /\ Len(stack') = Len(stack) - 1
           /\ Front(stack') = BelowTwo
           /\ last'.instr = Ch.minus => NewTop = TopB - TopA
           /\ last'.instr = Ch.backtick
                => NewTop = (IF TopB > TopA THEN 1 ELSE 0)
           /\ (last'.instr \in {Ch.slash, Ch.percent} /\ TopA = 0)
                => NewTop = 0
           /\ (last'.instr = Ch.slash /\ TopA # 0)
                => (/\ Abs(TopB - NewTop * TopA) < Abs(TopA)
                    /\ (TopB - NewTop * TopA) * TopB >= 0)
           /\ (last'.instr = Ch.percent /\ TopA # 0)
                => (/\ Abs(NewTop) < Abs(TopA)
                    /\ NewTop * TopB >= 0
                    /\ (TopB - NewTop) % Abs(TopA) = 0))]_vars

\* '%' has left a negative remainder: b was negative
C8_Witness ==
  /\ last.op = "step" /\ last.instr = Ch.percent /\ last.depth = 2
  /\ result = Ok /\ stack = <<-1>>

\* the operands an instruction pops
Needs(c) ==
  IF c = Ch.p THEN 3
  ELSE IF c \in {Ch.plus, Ch.minus, Ch.star, Ch.slash, Ch.percent,
                 Ch.backtick, Ch.backslash, Ch.g} THEN 2
  ELSE IF c \in {Ch.bang, Ch.underscore, Ch.bar, Ch.colon, Ch.dollar,
                 Ch.dot, Ch.comma} THEN 1
  ELSE 0

\* the stack s extended below with zeros to n values
Padded(s, n) == [k \in 1..(n - Len(s)) |-> 0] \o s

\* a step in Normal mode finds fewer values than its instruction pops
Underflows == /\ last'.op = "step" /\ mode = "Normal"
              /\ last'.instr # NoInstr
              /\ Len(stack) < Needs(last'.instr)

\* the machine a step has left
Left == [stack |-> stack', program |-> program', pc |-> pc',
         direction |-> direction', width |-> width', height |-> height',
         mode |-> mode', input |-> input', output |-> output',
         running |-> running', res |-> result']

RECURSIVE StripZeros(_)
\* a stack without the zeros at its bottom: over an unbounded supply of
\* zeros they make no difference
StripZeros(s) == IF s # <<>> /\ s[1] = 0 THEN StripZeros(Tail(s)) ELSE s

\* C9 as stated: every instruction succeeds on a stack that holds fewer
\* values than it pops (the values it finds are small).
C9_UnderflowSucceeds ==
  [][(Underflows /\ \A k \in 1..Len(stack) : Abs(stack[k]) <= OpVal)
       => result' = Ok]_vars

\* C9 as amended: on a stack that holds fewer values than the instruction
\* pops, a step does what it does on that stack extended below with zeros
\* (same result, grid, cursor, heading, mode, input and output, and the same
\* stack up to zeros at the bottom);
\* ':' on the empty stack leaves two zeros, '\' on [x] leaves x under a 0
\* and '$' leaves the empty stack empty.
C9_UnderflowAsZeros ==
  [][Underflows
       => (/\ \E o \in step([Machine EXCEPT
                              !.stack = Padded(stack, Needs(last'.instr))]) :
                /\ StripZeros(o.stack) = StripZeros(stack')
                /\ [o EXCEPT !.stack = stack'] = Left
           /\ (last'.instr = Ch.colon /\ stack = <<>>)
                => (stack' = <<0, 0>> /\ result' = Ok)
           /\ (last'.instr = Ch.backslash /\ Len(stack) = 1)
                => (stack' = <<stack[1], 0>> /\ result' = Ok)
           /\ (last'.instr = Ch.dollar /\ stack = <<>>)
                => (stack' = <<>> /\ result' = Ok))]_vars

\* '\' has swapped the one value 2 with the 0 of the empty stack below it
C9_Witness ==
  /\ last.op = "step" /\ last.instr = Ch.backslash /\ last.depth = 1
  /\ result = Ok /\ stack = <<2, 0>>

\* C10: a failing ',' leaves the stack shorter by the one value it popped
\* and a failing 'p' shorter by its three operands, whichever validation
\* failed.
C10_PopsAllOperands ==
  [][(/\ last'.op = "step" /\ mode = "Normal" /\ IsErr(result')
      /\ last'.instr \in {Ch.comma, Ch.p}
      /\ Len(stack) >= Needs(last'.instr))
       => stack' = SubSeq(stack, 1, Len(stack) - Needs(last'.instr))]_vars

\* the k-th value a step pops (the first is the top), 0 below the bottom
Operand(k) == IF Len(stack) >= k THEN stack[Len(stack) - k + 1] ELSE 0

NotByte(n) == n < 0 \/ n > 255

\* C11: 'g' and 'p' fail with InvalidCoordinates carrying the popped (x, y)
\* whenever x or y is negative, x is at least the width or y at least the
\* height; 'p' reports a negative coordinate before a value outside 0..255
\* (InvalidAscii carrying v) and that before a coordinate beyond the grid;
\* ',' fails with InvalidAscii carrying the popped value outside 0..255.
\* They fail in no other case, and a failure changes neither grid nor output.
C11_ValidationOrder ==
  [][(/\ last'.op = "step" /\ mode = "Normal"
      /\ last'.instr \in {Ch.g, Ch.p, Ch.comma})
       => LET y == Operand(1)
              x == Operand(2)
              v == Operand(3)
              negative == x < 0 \/ y < 0
              beyond == x >= width \/ y >= height
              expected ==
                CASE last'.instr = Ch.g ->
                       IF negative \/ beyond THEN InvalidCoordinates(x, y)
                       ELSE Ok
                  [] last'.instr = Ch.p ->
                       IF negative THEN InvalidCoordinates(x, y)
                       ELSE IF NotByte(v) THEN InvalidAscii(v)
                       ELSE IF beyond THEN InvalidCoordinates(x, y)
                       ELSE Ok
                  [] last'.instr = Ch.comma ->
                       IF NotByte(Operand(1)) THEN InvalidAscii(Operand(1))
                       ELSE Ok
          IN  /\ result' = expected
              /\ result' # Ok => (program' = program /\ output' = output)]_vars

\* 'p' has reported the value 256 although its coordinates (2, 2) lie beyond
\* the grid as well
C11_Witness ==
  /\ last.op = "step" /\ last.instr = Ch.p /\ last.depth = 3
  /\ result = InvalidAscii(256) /\ stack = <<>>
  /\ height = 2

\* C12: 'p' with operands v, x, y (v in 0..255, (x, y) inside the grid)
\* succeeds and writes v to row y, column x and to no other cell; the 'g'
\* with operands x, y that follows succeeds and pushes exactly v, the content
\* of row y, column x.
C12_PutGetRoundTrip ==
  [][/\ (last.op = "load" /\ last'.op = "step" /\ last'.instr = Ch.p)
          => /\ result' = Ok
             /\ program' = [program EXCEPT
                              ![Operand(1) + 1][Operand(2) + 1] = Operand(3)]
             /\ stack' = SubSeq(stack, 1, 3)
     /\ (/\ last.instr = Ch.p /\ last.depth = 6
         /\ last'.op = "step" /\ last'.instr = Ch.g)
          => /\ result' = Ok
             /\ stack' = <<stack[1], stack[1]>>
             /\ NewTop = program[Operand(1) + 1][Operand(2) + 1]
             /\ program' = program]_vars

\* the value 255 written to the last cell of the second row has been read back
C12_Witness ==
  /\ last.op = "step" /\ last.instr = Ch.g /\ last.depth = 3
  /\ result = Ok /\ stack = <<255, 255>>
  /\ program[2][3] = 255

\* C13: in string mode a step on a cell other than the quote succeeds, pushes
\* the cell's character code and advances the cursor; nothing else changes
\* (no operator is dispatched, running is not cleared, the mode stays).
C13_StringPushesCode ==
  [][(/\ last'.op = "step" /\ mode = "String"
      /\ last'.instr \notin {NoInstr, Ch.quote})
       => /\ result' = Ok
          /\ stack' = Append(stack, last'.instr)
          /\ pc' = move_pc(pc, direction, width, height)
          /\ running'
          /\ UNCHANGED <<program, direction, mode, input, output>>]_vars

\* C14: the mode changes only in a successful step that executes the quote,
\* and every step that executes the quote flips it (Normal to String, String
\* to Normal); any other step, and any failing step, leaves the mode.
C14_ModeFlipsAtQuote ==
  [][/\ mode' # mode
          => (last'.op = "step" /\ last'.instr = Ch.quote /\ result' = Ok)
     /\ (last'.op = "step" /\ last'.instr = Ch.quote)
          => /\ result' = Ok
             /\ mode = "Normal" => mode' = "String"
             /\ mode = "String" => mode' = "Normal"]_vars

\* the quote has been executed a second time, ending the string it opened:
\* the two spaces between are on the stack
C14_Witness ==
  /\ last.op = "step" /\ last.instr = Ch.quote /\ last.depth = 2
  /\ mode = "Normal" /\ stack = <<Ch.space, Ch.space>>
  /\ pc = <<0, 1>> /\ direction = "Right"

\* the cell to is n cells from the cell from in the heading dir, on the torus
\* of height rows and width columns
StepsAlong(from, to, dir, n) ==
  LET d == CASE dir = "Left"  -> <<0, -n>>
             [] dir = "Right" -> <<0, n>>
             [] dir = "Up"    -> <<-n, 0>>
             [] dir = "Down"  -> <<n, 0>>
  IN  /\ to[1] \in 0..(height - 1)
      /\ to[2] \in 0..(width - 1)
      /\ (to[1] - from[1] - d[1]) % height = 0
      /\ (to[2] - from[2] - d[2]) % width = 0

\* the step executes the bridge
Bridges == mode = "Normal" /\ last'.instr = Ch.hash

\* C15: a successful step of anything but the bridge moves the cursor one cell
\* in the heading the step leaves, wrapping at the four edges (column 0 to
\* column width-1 and back, row 0 to row height-1 and back); the other
\* coordinate is unchanged.
C15_ToroidalAdvance ==
  [][(/\ last'.op = "step" /\ last'.instr # NoInstr /\ ~Bridges
      /\ result' = Ok)
       => /\ StepsAlong(pc, pc', direction', 1)
          /\ direction' \in {"Left", "Right"} => pc'[1] = pc[1]
          /\ direction' \in {"Up", "Down"} => pc'[2] = pc[2]
          /\ (direction' = "Left" /\ pc[2] = 0) => pc'[2] = width - 1
          /\ (direction' = "Right" /\ pc[2] = width - 1) => pc'[2] = 0
          /\ (direction' = "Up" /\ pc[1] = 0) => pc'[1] = height - 1
          /\ (direction' = "Down" /\ pc[1] = height - 1) => pc'[1] = 0]_vars

\* '<' at the origin has sent the cursor to the last column of its row
C15_Witness ==
  /\ last.op = "step" /\ last.instr = Ch.lt /\ result = Ok
  /\ mode = "Normal" /\ direction = "Left"
  /\ pc = <<0, width - 1>> /\ width = 3

\* C20: a step that executes '#' succeeds and moves the cursor two cells in
\* the heading, each advance wrapping, so that the next step fetches the cell
\* after the one that follows '#'; stack, grid, heading and mode are unchanged.
C20_BridgeSkipsOne ==
  [][(last'.op = "step" /\ Bridges)
       => /\ result' = Ok
          /\ StepsAlong(pc, pc', direction, 2)
          /\ pc' = move_pc(move_pc(pc, direction, width, height),
                           direction, width, height)
          /\ UNCHANGED <<stack, program, direction, mode, output>>]_vars

\* '#' at the origin, heading Left, has sent the cursor over the last column
\* to the middle one
C20_Witness ==
  /\ last.op = "step" /\ last.instr = Ch.hash /\ result = Ok
  /\ mode = "Normal" /\ direction = "Left"
  /\ pc = <<0, 1>> /\ width = 3

\* C16: load (of any text, the empty one included) leaves the stack as it
\* was: the same values in the same order.
C16_LoadKeepsStack ==
  [][last'.op = "load" => stack' = stack]_vars

\* a program has been loaded over a stack that holds the '@' and the '<'
\* pushed in string mode
C16_Witness ==
  /\ last.op = "load" /\ last.text = TextUnknown
  /\ stack = <<Ch.at, Ch.lt>>

\* C17: run() on a program with rows does what repeated step() calls do: the
\* call changes nothing a step does not set itself, every turn of its loop
\* leaves stack, grid, cursor, heading, mode, input, output and running as
\* one step() from the same state leaves them, the loop ends exactly after
\* the first step that fails or leaves running false, and run() returns that
\* step's result.
C17_RunIsStepLoop ==
  [][/\ (ctl = "idle" /\ last'.op = "run" /\ program # <<>>)
          => /\ ctl' = "run" /\ running'
             /\ UNCHANGED <<stack, program, pc, direction, width, height,
                            mode, input, output>>
     /\ ctl = "run"
          => \E o \in step(Machine) :
               /\ Store(o)
               /\ o.res # Panic =>
                    /\ ctl' = "idle" <=> (o.res # Ok \/ ~o.running)
                    /\ ctl' = "idle" => result' = o.res]_vars

\* run() has returned the error of the step that found 'x'
C17_Witness ==
  /\ last.op = "run" /\ last.instr = Ch.x /\ ctl = "idle"
  /\ result = UnknownInstruction(Ch.x) /\ running

\* the length in characters of the longest of the lines
LongestLine(lines) ==
  LET lens == {Len(lines[i]) : i \in 1..Len(lines)}
  IN  IF lens = {} THEN 0 ELSE CHOOSE n \in lens : \A k \in lens : k <= n

\* the cells in which the grids a and b (of one shape) differ
Differing(a, b) ==
  {<<i, j>> \in (1..Len(a)) \X (1..width) :
     j <= Len(a[i]) /\ a[i][j] # b[i][j]}

\* C19: load builds a grid with one row for each line of the text, every row
\* as long as the longest line has characters, the lines padded on the right
\* with spaces; a step changes neither width nor height nor the length of a
\* row, and it changes at most one cell, which only a successful 'p' does.
C19_GridShape ==
  [][/\ last'.op = "load"
          => LET lines == Lines(last'.text)
             IN  /\ Len(program') = Len(lines)
                 /\ \A i \in 1..Len(program') :
                      /\ Len(program'[i]) = LongestLine(lines)
                      /\ \A j \in 1..Len(program'[i]) :
                           program'[i][j] = IF j <= Len(lines[i])
                                            THEN lines[i][j] ELSE Ch.space
     /\ last'.op \in {"step", "run"}
          => /\ width' = width /\ height' = height
             /\ Len(program') = Len(program)
             /\ \A i \in 1..Len(program) : Len(program'[i]) = Len(program[i])
             /\ Cardinality(Differing(program, program')) <= 1
             /\ program' # program
                  => (last'.instr = Ch.p /\ result' = Ok)]_vars

\* s is the decimal numeral of n: a '-' if n is negative, then the digits of
\* its magnitude without a leading zero
IsDecimal(s, n) ==
  LET body == IF n < 0 /\ s # <<>> THEN Tail(s) ELSE s
  IN  /\ n < 0 => (s # <<>> /\ s[1] = Ch.minus)
      /\ body # <<>>
      /\ \A k \in 1..Len(body) : IsDigit(body[k])
      /\ Len(body) > 1 => body[1] # Ch.zero
      /\ DigitsValue(body) = Abs(n)

\* what the call has added to the output
Added == SubSeq(output', Len(output) + 1, Len(output'))

\* C18: every load and every step keeps the output written so far; a
\* successful '.' adds the decimal numeral of the value it pops and nothing
\* after it, a successful ',' adds the one byte it pops, and any other step,
\* any failing step and any load adds nothing.
C18_OutputAccumulates ==
  [][/\ Len(output') >= Len(output)
     /\ SubSeq(output', 1, Len(output)) = output
     /\ IF last'.op = "step" /\ mode = "Normal" /\ result' = Ok
           /\ last'.instr = Ch.dot
        THEN IsDecimal(Added, Operand(1))
        ELSE IF last'.op = "step" /\ mode = "Normal" /\ result' = Ok
                /\ last'.instr = Ch.comma
        THEN Added = <<Operand(1)>>
        ELSE Added = <<>>]_vars

\* "2" and then "-1" have been written, one after the other
C18_Witness ==
  /\ last.op = "step" /\ last.instr = Ch.dot /\ result = Ok
  /\ output = <<Ch.zero + 2, Ch.minus, Ch.zero + 1>>

\* the characters with a meaning in Normal mode: the operators, the digits,
\* the space, the quote and the halt
Documented ==
  {Ch.plus, Ch.minus, Ch.star, Ch.slash, Ch.percent, Ch.bang, Ch.backtick,
   Ch.gt, Ch.lt, Ch.caret, Ch.v, Ch.question, Ch.underscore, Ch.bar,
   Ch.colon, Ch.backslash, Ch.dollar, Ch.dot, Ch.comma, Ch.hash, Ch.p, Ch.g,
   Ch.amp, Ch.tilde, Ch.space, Ch.quote, Ch.at} \cup (Ch.zero..Ch.nine)

\* C21: in Normal mode a step on a cell outside the documented set fails with
\* UnknownInstruction carrying the character fetched, and a step on a cell of
\* the documented set never returns UnknownInstruction.
C21_UnknownInstruction ==
  [][(last'.op = "step" /\ mode = "Normal" /\ last'.instr # NoInstr)
       => IF last'.instr \in Documented
          THEN result'.kind # "UnknownInstruction"
          ELSE /\ result'.kind = "UnknownInstruction"
               /\ result'.a = last'.instr]_vars

\* the step on the cell 256 has failed, the error carrying 256
C21_Witness ==
  /\ last.op = "step" /\ last.instr = Ch.amacron /\ mode = "Normal"
  /\ result.kind = "UnknownInstruction" /\ result.a = Ch.amacron

\* the bytes the call has taken from the input
Consumed == SubSeq(input, 1, Len(input) - Len(input'))

\* the text t is the numeral of n as str::parse reads it: an optional sign,
\* then one or more digits
Denotes(t, n) ==
  LET signed == t # <<>> /\ t[1] \in {Ch.plus, Ch.minus}
      body == IF signed THEN Tail(t) ELSE t
  IN  /\ body # <<>>
      /\ \A k \in 1..Len(body) : IsDigit(body[k])
      /\ n = IF signed /\ t[1] = Ch.minus THEN -DigitsValue(body)
             ELSE DigitsValue(body)

\* C22: '&' takes from the front of the input one line (up to and including
\* the first newline, or all that is left), pushes the integer the trimmed
\* line denotes, and fails with ParseError, the stack unchanged, when it
\* denotes none (the line read at the end of the input is empty); a line
\* that is not text is a read failure, IoError.  '~' takes one byte and
\* pushes its value, and fails with IoError, the stack unchanged, when the
\* input is at its end.
C22_InputConsumedInOrder ==
  [][/\ (last'.op = "step" /\ mode = "Normal" /\ last'.instr = Ch.amp)
          => /\ Len(input') <= Len(input)
             /\ input = Consumed \o input'
             /\ \A k \in 1..(Len(Consumed) - 1) : Consumed[k] # Ch.newline
             /\ input' # <<>> => Consumed[Len(Consumed)] = Ch.newline
             /\ input # <<>> => Consumed # <<>>
             /\ IF ~IsText(Consumed)
                THEN result' = IoError /\ stack' = stack
                ELSE IF \E n \in IntMin..IntMax : Denotes(trim(Consumed), n)
                THEN /\ result' = Ok
                     /\ \E n \in IntMin..IntMax :
                          /\ Denotes(trim(Consumed), n)
                          /\ stack' = Append(stack, n)
                ELSE result' = ParseError /\ stack' = stack
     /\ (last'.op = "step" /\ mode = "Normal" /\ last'.instr = Ch.tilde)
          => IF input = <<>>
             THEN result' = IoError /\ stack' = stack /\ input' = input
             ELSE /\ result' = Ok
                  /\ input' = Tail(input)
                  /\ stack' = Append(stack, Head(input))
                  /\ Head(input) \in 0..255]_vars

\* after the line holding the byte 255, '&' has read " 7 " and pushed 7
C22_Witness ==
  /\ last.op = "step" /\ last.instr = Ch.amp /\ mode = "Normal"
  /\ result = Ok /\ stack = <<7>> /\ input = <<>>

\* the step has returned one of the five errors
Fails == last'.op = "step" /\ IsErr(result')

\* C23 as stated: a step that returns an error changes nothing but the stack,
\* from which it can only have popped (the running flag, which every step
\* sets, left aside).
C23_FailureChangesOnlyStack ==
  [][Fails
       => /\ UNCHANGED <<program, pc, direction, width, height, mode, input,
                         output>>
          /\ Len(stack') <= Len(stack)
          /\ stack' = SubSeq(stack, 1, Len(stack'))]_vars

\* C23: a step that returns an error leaves cursor, heading, mode, grid and
\* output as they were and can only have popped from the stack, so the next
\* step fetches the same cell; it has set running, and it can have consumed
\* input.
C23_FailureKeepsPosition ==
  [][Fails
       => /\ UNCHANGED <<program, pc, direction, width, height, mode, output>>
          /\ Len(stack') <= Len(stack)
          /\ stack' = SubSeq(stack, 1, Len(stack'))
          /\ Fetched' = last'.instr
          /\ running'
          /\ Len(input') <= Len(input)
          /\ input' = SubSeq(input, Len(input) - Len(input') + 1, Len(input))]_vars

\* 'p' has failed on a negative coordinate, two of its three operands popped,
\* the cursor still on it
C23_Witness ==
  /\ last.op = "step" /\ last.instr = Ch.p /\ last.depth = 3
  /\ result.kind = "InvalidCoordinates" /\ Len(stack) = 1
  /\ pc = <<0, 0>> /\ Fetched = Ch.p

\* C24: after a step that succeeds on a program with rows, running is false
\* if the step executed '@' in Normal mode and true otherwise, whatever it was
\* before: a step after the halt sets it again and executes the next cell.
C24_RunningAfterStep ==
  [][(last'.op = "step" /\ last'.instr # NoInstr /\ result' = Ok)
       => (running' <=> ~(mode = "Normal" /\ last'.instr = Ch.at))]_vars

\* the step after the halt at the origin has executed the space next to it
\* and running is true again
C24_Witness ==
  /\ last.op = "step" /\ last.instr = Ch.space /\ result = Ok
  /\ mode = "Normal" /\ direction = "Right"
  /\ program[1][1] = Ch.at /\ pc = <<0, 2>>
  /\ running

\* the five arithmetic instructions
Arithmetic == {Ch.plus, Ch.minus, Ch.star, Ch.slash, Ch.percent}

\* C25: '+', '-', '*', '/' and '%' on any two values of the word succeed and
\* push a value of the word; none of them aborts the engine.
C25_ArithmeticTotal ==
  [][(last'.op = "step" /\ mode = "Normal" /\ last'.instr \in Arithmetic)
       => /\ result' = Ok
          /\ ctl' # "aborted"
          /\ stack' # <<>>
          /\ InWord(NewTop)]_vars

\* the values 'g' pushes for the cell under the cursor
ReadWithGet ==
  {o.stack[Len(o.stack)] :
     o \in get([Machine EXCEPT !.stack = <<pc[2], pc[1]>>])}

\* C26: the value pushed when a cell other than the quote is visited in string
\* mode is the value 'g' pushes for the same cell.
C26_OneCodePerCell ==
  [][(/\ last'.op = "step" /\ mode = "String"
      /\ last'.instr \notin {NoInstr, Ch.quote})
       => /\ result' = Ok
          /\ stack' # <<>>
          /\ ReadWithGet = {NewTop}]_vars

====
